---- MODULE Spec2Model ----
(***************************************************************************)
(* Model of the ElGamal client node (elgamal_client.cpp): the round state  *)
(* machine driven by parameter events and service responses, and the       *)
(* modular arithmetic it uses.  Callbacks are delivered one at a time by   *)
(* the single-threaded executor started by rclcpp::spin, so each callback  *)
(* is one atomic action.                                                   *)
(***************************************************************************)
EXTENDS Integers, Naturals, Sequences, FiniteSets, TLC

VARIABLES
    round_,            \* int round_
    waiting_service_,  \* bool waiting_service_
    finished_,         \* bool finished_
    encrypt_client_,   \* requests sent and not yet answered, with the (p, n) their callback captured
    result_pub_,       \* the result topic: number of messages published on it
    last,              \* the callback that ran last: its inputs, what it logged and what it published
    call               \* the latest direct evaluation of the arithmetic (arithmetic specification only)

vars == <<round_, waiting_service_, finished_, encrypt_client_, result_pub_, last, call>>

(***************************************************************************)
(* Bounds of the model.  Words are WordBits wide instead of 64, and the    *)
(* intermediate product of mod_mul is 2 * WordBits wide instead of 128.    *)
(***************************************************************************)
WordBits == 5

MaxExp == 12

MaxK == 3

Pow2(k) == 2 ^ k

WordMod == Pow2(WordBits)

MaxWord == WordMod - 1

Word == 0 .. MaxWord

\* values carried by the parameter events and the responses of the protocol specification
PVals == {1, 2, 3, 5, 23}

AVals == {0, 5, 7}

YVals == {0, 3, 10, 21}

\* moduli of the round-trip evaluations
Primes == {3, 5, 7, 23}

kTotalRounds == 5

(***************************************************************************)
(* Modular arithmetic                                                      *)
(***************************************************************************)
\* mod_mul whose product is kept in one word
mod_mul_one_word(a, b, mod) == ((a * b) % WordMod) % mod

mod_mul(a, b, mod) == ((a * b) % Pow2(2 * WordBits)) % mod

RECURSIVE mod_pow_loop(_, _, _, _)
mod_pow_loop(result, base, exp, mod) ==
    IF exp > 0
    THEN mod_pow_loop(IF exp % 2 = 1 THEN mod_mul(result, base, mod) ELSE result,
                      mod_mul(base, base, mod),
                      exp \div 2,
                      mod)
    ELSE result

\* mod_pow whose result starts at 1 instead of 1 % mod
mod_pow_unreduced(base, exp, mod) == mod_pow_loop(1, base % mod, exp, mod)

mod_pow(base, exp, mod) == mod_pow_loop(1 % mod, base % mod, exp, mod)

\* the conversion that keeps the unsigned value
to_int64_unsigned(x) == x

\* static_cast<int64_t>(x) of an unsigned word
to_int64(x) == IF x >= Pow2(WordBits - 1) THEN x - WordMod ELSE x

\* the exponent with p - n in place of p - 1 - n
exponent_off_by_one(p, n) == (p - n) % WordMod

\* the exponent and the recovered value computed by the response callback
exponent(p, n) == (p - 1 - n) % WordMod

recover(y1, y2, p, n) == mod_mul(y2, mod_pow(y1, exponent(p, n), p), p)

(***************************************************************************)
(* Initial state: the members' initializers, nothing sent, nothing         *)
(* published.                                                              *)
(***************************************************************************)
NoCall == [fn |-> "none"]

Init ==
    /\ round_ = 0
    /\ waiting_service_ = FALSE
    /\ finished_ = FALSE
    /\ encrypt_client_ = <<>>
    /\ result_pub_ = 0
    /\ last = [op |-> "none", log |-> "none"]
    /\ call = NoCall

(***************************************************************************)
(* on_params: the subscription callback.  p and a are the fields of the    *)
(* message, avail is whether elgamal_service is up when the event is       *)
(* handled (what wait_for_service(1s) returns if it is called), and the    *)
(* secret n is what the generator draws from [1, p - 2].                   *)
(***************************************************************************)
ParamsEvent(p, a, avail, n, log) ==
    [op |-> "on_params", p |-> p, a |-> a, avail |-> avail, n |-> n, log |-> log]

\* the early return that gives up on the request in flight
ignore_event_resets_waiting ==
    /\ waiting_service_' = FALSE
    /\ UNCHANGED <<round_, finished_, encrypt_client_, result_pub_>>

\* the early return of the first guard
ignore_event ==
    UNCHANGED <<round_, waiting_service_, finished_, encrypt_client_, result_pub_>>

\* the first guard without its waiting_service_ half
busy_finished_only == finished_

busy == finished_ \/ waiting_service_

rounds_done == round_ >= kTotalRounds

\* the validity test that only refuses a zero modulus
invalid_p_zero_only(p) == p < 1

invalid_p(p) == p < 3

\* the distribution with p - 1 as its upper end
secrets_up_to_p_minus_1(p) == 1 .. ((p - 1) % WordMod)

\* the values of uniform_int_distribution<uint64_t>(1, p - 2)
secrets(p) == 1 .. ((p - 2) % WordMod)

\* the probe's early return with waiting_service_ already set
service_unavailable_marks_waiting ==
    /\ waiting_service_' = TRUE
    /\ UNCHANGED <<round_, finished_, encrypt_client_, result_pub_>>

service_unavailable ==
    UNCHANGED <<round_, waiting_service_, finished_, encrypt_client_, result_pub_>>

\* the callback capturing b where it should capture n
send_request_captures_b(b, p, n) ==
    /\ waiting_service_' = TRUE
    /\ encrypt_client_' = Append(encrypt_client_, [public_key |-> b, p |-> p, n |-> b])
    /\ UNCHANGED <<round_, finished_, result_pub_>>

\* the request sent without waiting_service_ = true
send_request_without_flag(b, p, n) ==
    /\ encrypt_client_' = Append(encrypt_client_, [public_key |-> b, p |-> p, n |-> n])
    /\ UNCHANGED <<round_, waiting_service_, finished_, result_pub_>>

send_request(b, p, n) ==
    /\ waiting_service_' = TRUE
    /\ encrypt_client_' = Append(encrypt_client_, [public_key |-> b, p |-> p, n |-> n])
    /\ UNCHANGED <<round_, finished_, result_pub_>>

on_params(p, a, avail) ==
    /\ UNCHANGED call
    /\ IF busy
       THEN /\ last' = ParamsEvent(p, a, avail, 0, "none")
            /\ ignore_event
       ELSE IF rounds_done
       THEN /\ finished_' = TRUE
            /\ last' = ParamsEvent(p, a, avail, 0, "All rounds are complete")
            /\ UNCHANGED <<round_, waiting_service_, encrypt_client_, result_pub_>>
       ELSE IF invalid_p(p)
       THEN /\ last' = ParamsEvent(p, a, avail, 0, "Invalid p")
            /\ UNCHANGED <<round_, waiting_service_, finished_, encrypt_client_, result_pub_>>
       ELSE \E n \in secrets(p) :
              LET b == mod_pow(a, n, p) IN
              IF ~avail
              THEN /\ last' = ParamsEvent(p, a, avail, n, "Service is not available")
                   /\ service_unavailable
              ELSE /\ last' = ParamsEvent(p, a, avail, n, "calling elgamal_service")
                   /\ send_request(b, p, n)

(***************************************************************************)
(* The response callback of the request at position i.  ok = FALSE is      *)
(* future.get() throwing; otherwise y1 and y2 are the response's fields.   *)
(***************************************************************************)
RemoveAt(s, i) == SubSeq(s, 1, i - 1) \o SubSeq(s, i + 1, Len(s))

ResponseEvent(ok, y1, y2, p, n, data, log) ==
    [op |-> "response", ok |-> ok, y1 |-> y1, y2 |-> y2, p |-> p, n |-> n, data |-> data, log |-> log]

\* the completion test one round early
finished_after_one_early(r) == IF r >= kTotalRounds - 1 THEN TRUE ELSE finished_

\* the completion test with > in place of >=
finished_after_strict(r) == IF r > kTotalRounds THEN TRUE ELSE finished_

\* the callback without its completion test
finished_after_never(r) == finished_

finished_after(r) == IF r >= kTotalRounds THEN TRUE ELSE finished_

\* the catch block counting the failed round
response_failed_counts_round ==
    /\ waiting_service_' = FALSE
    /\ round_' = round_ + 1
    /\ UNCHANGED <<finished_, result_pub_>>

\* the catch block without waiting_service_ = false
response_failed_keeps_waiting ==
    UNCHANGED <<waiting_service_, round_, finished_, result_pub_>>

\* the catch block publishing a message all the same
response_failed_publishes ==
    /\ waiting_service_' = FALSE
    /\ result_pub_' = result_pub_ + 1
    /\ UNCHANGED <<round_, finished_>>

\* the catch block treating the failure as the end
response_failed_finishes ==
    /\ waiting_service_' = FALSE
    /\ finished_' = TRUE
    /\ UNCHANGED <<round_, result_pub_>>

response_failed ==
    /\ waiting_service_' = FALSE
    /\ UNCHANGED <<round_, finished_, result_pub_>>

\* the success path without waiting_service_ = false
response_succeeded_keeps_waiting ==
    /\ result_pub_' = result_pub_ + 1
    /\ round_' = round_ + 1
    /\ finished_' = finished_after(round_ + 1)
    /\ UNCHANGED waiting_service_

\* publish, ++round_, waiting_service_ = false and the completion test
response_succeeded ==
    /\ result_pub_' = result_pub_ + 1
    /\ round_' = round_ + 1
    /\ waiting_service_' = FALSE
    /\ finished_' = finished_after(round_ + 1)

response_callback(i, ok, y1, y2) ==
    /\ i \in 1 .. Len(encrypt_client_)
    /\ UNCHANGED call
    /\ LET p == encrypt_client_[i].p
           n == encrypt_client_[i].n
       IN
       /\ encrypt_client_' = RemoveAt(encrypt_client_, i)
       /\ IF ok
          THEN LET x == recover(y1, y2, p, n) IN
               /\ response_succeeded
               /\ last' = ResponseEvent(TRUE, y1, y2, p, n, <<to_int64(x)>>, "published")
          ELSE /\ response_failed
               /\ last' = ResponseEvent(FALSE, 0, 0, p, n, <<>>, "Service call failed")

ParamsArrive == \E p \in PVals, a \in AVals, avail \in BOOLEAN : on_params(p, a, avail)

ResponseSucceeds ==
    \E i \in 1 .. Len(encrypt_client_), y1 \in YVals, y2 \in YVals : response_callback(i, TRUE, y1, y2)

ResponseFails == \E i \in 1 .. Len(encrypt_client_) : response_callback(i, FALSE, 0, 0)

Next == ParamsArrive \/ ResponseSucceeds \/ ResponseFails

Spec == Init /\ [][Next]_vars

(***************************************************************************)
(* Fairness for completion: a valid parameter event keeps arriving while   *)
(* the service is up, and a request that is sent again and again is        *)
(* eventually answered with a successful response.                         *)
(***************************************************************************)
ValidParamsArrive == \E p \in PVals, a \in AVals : ~invalid_p(p) /\ on_params(p, a, TRUE)

SpecLive == Spec /\ WF_vars(ValidParamsArrive) /\ SF_vars(ResponseSucceeds)

(***************************************************************************)
(* Direct evaluations of the arithmetic.  The service is another node; its *)
(* answer is the ciphertext pair of the data model: y1 = a^k mod p and     *)
(* y2 = m * b^k mod p for its own ephemeral k and a message m.  Each       *)
(* behaviour of SpecArith evaluates once, on inputs of the bounded sets.   *)
(***************************************************************************)
RECURSIVE BrutePow(_, _, _)
BrutePow(base, e, m) == IF e = 0 THEN 1 % m ELSE (base * BrutePow(base, e - 1, m)) % m

elgamal_service(p, a, b, k, m) ==
    [y1 |-> BrutePow(a, k, p), y2 |-> (m * BrutePow(b, k, p)) % p]

EvalModPow ==
    /\ call = NoCall
    /\ \E base \in Word, exp \in 0 .. MaxExp, mod \in 1 .. MaxWord :
         call' = [fn |-> "mod_pow", base |-> base, exp |-> exp, mod |-> mod,
                  result |-> mod_pow(base, exp, mod)]

EvalModMul ==
    /\ call = NoCall
    /\ \E x \in Word, y \in Word, mod \in 1 .. MaxWord :
         call' = [fn |-> "mod_mul", x |-> x, y |-> y, mod |-> mod, result |-> mod_mul(x, y, mod)]

\* one round on its own: the contribution on_params derives, the service's
\* answer to it, and the value the response callback recovers
EvalRound ==
    /\ call = NoCall
    /\ \E p \in Primes, a \in Word, k \in 0 .. MaxK :
         \E n \in secrets(p), m \in 0 .. (p - 1) :
           LET b == mod_pow(a, n, p)
               r == elgamal_service(p, a, b, k, m)
           IN call' = [fn |-> "round", p |-> p, a |-> a, n |-> n, k |-> k, m |-> m, b |-> b,
                       y1 |-> r.y1, y2 |-> r.y2, x |-> recover(r.y1, r.y2, p, n)]

NextArith ==
    /\ (EvalModPow \/ EvalModMul \/ EvalRound)
    /\ UNCHANGED <<round_, waiting_service_, finished_, encrypt_client_, result_pub_, last>>

SpecArith == Init /\ [][NextArith]_vars

(***************************************************************************)
(* Properties                                                              *)
(***************************************************************************)
RoundState == <<round_, waiting_service_, finished_>>

Effects == <<encrypt_client_, result_pub_>>

Idle == ~waiting_service_ /\ ~finished_ /\ round_ < kTotalRounds

Outstanding == Len(encrypt_client_)

\* C1: at most one request is outstanding, one is outstanding exactly when
\* waiting_service_ is true, and a parameter event handled while
\* waiting_service_ is true sends no request, publishes nothing and leaves
\* round_, waiting_service_ and finished_ as they were, whatever p and a.
SingleFlight ==
    /\ [](Outstanding <= 1 /\ (waiting_service_ <=> Outstanding = 1))
    /\ [][(last'.op = "on_params" /\ waiting_service_)
            => (UNCHANGED RoundState /\ UNCHANGED Effects)]_vars

SingleFlightWitness ==
    /\ last.op = "on_params"
    /\ last.p < 3
    /\ waiting_service_
    /\ Outstanding = 1
    /\ round_ = 1

\* C2: in every step round_ stays the same or grows by exactly 1, and it
\* grows only in the step that handles a successful response.
MonotonicRound ==
    [][\/ round_' = round_
       \/ (round_' = round_ + 1 /\ last'.op = "response" /\ last'.ok)]_vars

MonotonicRoundWitness ==
    /\ round_ = 3
    /\ last.op = "response"
    /\ last.ok

\* C3: finished_ implies round_ = kTotalRounds and not waiting_service_;
\* finished_ once true stays true, and a parameter event handled after it
\* changes nothing, sends no request and publishes nothing.
TerminalState ==
    /\ [](finished_ => (round_ = kTotalRounds /\ ~waiting_service_))
    /\ [][finished_ => finished_']_vars
    /\ [][(finished_ /\ last'.op = "on_params")
            => (UNCHANGED RoundState /\ UNCHANGED Effects)]_vars

TerminalStateWitness ==
    /\ finished_
    /\ last.op = "on_params"
    /\ last.p >= 3
    /\ last.avail

\* C4: for a prime p, a not divisible by p, a secret n in [1, p - 2],
\* b = mod_pow(a, n, p), a message m in [0, p - 1] and the service's
\* ephemeral k, the value recovered from y1 = a^k mod p, y2 = m * b^k mod p
\* is m.
RoundTrip ==
    (call.fn = "round" /\ call.a % call.p # 0) => call.x = call.m

RoundTripWitness ==
    /\ call.fn = "round"
    /\ call.p = 23 /\ call.a = 5 /\ call.n = 6 /\ call.k = 3 /\ call.m = 15
    /\ call.b = 8 /\ call.y1 = 10 /\ call.y2 = 21
    /\ call.x = 15

\* C5: a failed response clears waiting_service_, leaves round_ and
\* finished_ as they were and publishes nothing; the client is idle again,
\* and a valid parameter event can then send a request with any secret of
\* its range.
CanRequestWith(p, n) ==
    ENABLED (\E a \in AVals :
               /\ on_params(p, a, TRUE)
               /\ waiting_service_'
               /\ Len(encrypt_client_') = 1
               /\ encrypt_client_'[1].n = n)

FailedResponse ==
    /\ [][(last'.op = "response" /\ ~last'.ok)
            => /\ waiting_service_ /\ ~waiting_service_'
               /\ UNCHANGED <<round_, finished_, result_pub_>>
               /\ Outstanding' = 0]_vars
    /\ []((last.op = "response" /\ ~last.ok)
            => /\ Idle
               /\ \A p \in PVals : p >= 3 => \A n \in 1 .. (p - 2) : CanRequestWith(p, n))

FailedResponseWitness ==
    /\ last.op = "response"
    /\ ~last.ok
    /\ round_ = 2
    /\ ~waiting_service_

\* C6: a successful response handled while waiting publishes exactly one
\* result, clears waiting_service_, adds 1 to round_, and sets finished_
\* exactly when the new round_ >= kTotalRounds.
SuccessfulResponse ==
    [][(last'.op = "response" /\ last'.ok)
         => /\ waiting_service_ /\ ~waiting_service_'
            /\ result_pub_' = result_pub_ + 1
            /\ Len(last'.data) = 1
            /\ round_' = round_ + 1
            /\ (finished_' <=> round_' >= kTotalRounds)
            /\ (~finished_' => Idle')]_vars

SuccessfulResponseWitness ==
    /\ last.op = "response"
    /\ last.ok
    /\ round_ = kTotalRounds
    /\ finished_
    /\ result_pub_ = kTotalRounds

\* C7: a parameter event with p < 3 handled in Idle changes nothing: no
\* secret is drawn, no request is sent and nothing is published.
InvalidParams ==
    [][(last'.op = "on_params" /\ last'.p < 3 /\ Idle)
         => /\ UNCHANGED RoundState /\ UNCHANGED Effects
            /\ last'.n = 0]_vars

InvalidParamsWitness ==
    /\ last.op = "on_params"
    /\ last.p = 2
    /\ last.log = "Invalid p"
    /\ Idle
    /\ round_ = 1

\* C8: a valid parameter event handled in Idle while the service is down
\* changes nothing, sends no request and publishes nothing, so the client
\* stays Idle.
EndpointUnavailable ==
    [][(last'.op = "on_params" /\ last'.p >= 3 /\ ~last'.avail /\ Idle)
         => (UNCHANGED RoundState /\ UNCHANGED Effects /\ Idle')]_vars

EndpointUnavailableWitness ==
    /\ last.op = "on_params"
    /\ last.p >= 3
    /\ ~last.avail
    /\ last.log = "Service is not available"
    /\ Idle
    /\ round_ = 1

\* C9: under the fairness of SpecLive the client eventually has finished_
\* true with round_ = kTotalRounds and exactly kTotalRounds results
\* published, and stays so forever.
Completion ==
    <>[](finished_ /\ round_ = kTotalRounds /\ result_pub_ = kTotalRounds /\ ~waiting_service_)

CompletionWitness ==
    /\ finished_
    /\ round_ = kTotalRounds
    /\ result_pub_ = kTotalRounds
    /\ Outstanding = 0

\* C10: mod_pow(base, exp, m) is base^exp mod m as computed by repeated
\* multiplication, it is 1 mod m when exp = 0, and it lies in [0, m - 1].
ModPowCorrect ==
    call.fn = "mod_pow"
      => /\ call.result = BrutePow(call.base, call.exp, call.mod)
         /\ (call.exp = 0 => call.result = 1 % call.mod)
         /\ call.result \in 0 .. (call.mod - 1)

ModPowCorrectWitness ==
    /\ call.fn = "mod_pow"
    /\ call.base = 7 /\ call.exp = 11 /\ call.mod = 31
    /\ call.result = 20

\* C11: one result is published per successful round: the number of results
\* published so far equals round_, and it never exceeds kTotalRounds.
OneResultPerRound ==
    /\ result_pub_ = round_
    /\ result_pub_ <= kTotalRounds

OneResultPerRoundWitness ==
    /\ result_pub_ = 3
    /\ round_ = 3
    /\ last.op = "response"
    /\ ~last.ok

\* C12: every request is sent with a secret n in [1, p - 2] for the p of the
\* same event, so the exponent p - 1 - n of the response callback lies in
\* [1, p - 2] and the unsigned subtraction does not wrap.
InSecretRange(p, n) ==
    /\ n \in 1 .. (p - 2)
    /\ exponent(p, n) = p - 1 - n
    /\ exponent(p, n) \in 1 .. (p - 2)

SecretRange ==
    /\ \A i \in 1 .. Len(encrypt_client_) :
         InSecretRange(encrypt_client_[i].p, encrypt_client_[i].n)
    /\ (last.op = "on_params" /\ last.n # 0) => InSecretRange(last.p, last.n)
    /\ last.op = "response" => InSecretRange(last.p, last.n)

SecretRangeWitness ==
    /\ last.op = "response"
    /\ last.ok
    /\ last.p = 23
    /\ last.n = 21
    /\ exponent(last.p, last.n) = 1

\* C13: the request sent by a parameter event carries the (p, n) of that
\* event; parameter events handled while it is outstanding, whatever their
\* p and a, leave it as it is; and the value published for its response is
\* computed from that (p, n).
Pairing ==
    /\ [][(last'.op = "on_params" /\ Outstanding' > Outstanding)
            => /\ encrypt_client_'[Outstanding'].p = last'.p
               /\ encrypt_client_'[Outstanding'].n = last'.n]_vars
    /\ [][(last'.op = "on_params" /\ Outstanding > 0)
            => encrypt_client_' = encrypt_client_]_vars
    /\ [][(last'.op = "response" /\ last'.ok)
            => /\ Outstanding = 1
               /\ last'.p = encrypt_client_[1].p
               /\ last'.n = encrypt_client_[1].n
               /\ last'.data = <<to_int64(recover(last'.y1, last'.y2,
                                                  encrypt_client_[1].p, encrypt_client_[1].n))>>]_vars

PairingWitness ==
    /\ last.op = "response"
    /\ last.ok
    /\ last.p = 23 /\ last.n = 6 /\ last.y1 = 10 /\ last.y2 = 21
    /\ last.data = <<15>>
    /\ round_ = 1

\* C14: a parameter event with p >= 3 handled in Idle while the service is
\* up sets waiting_service_, leaves round_ and finished_ as they were, and
\* sends exactly one request, whose public_key is a^n mod p for the secret n
\* drawn in that event.
AcceptedParams ==
    [][(last'.op = "on_params" /\ last'.p >= 3 /\ last'.avail /\ Idle)
         => /\ waiting_service_'
            /\ UNCHANGED <<round_, finished_, result_pub_>>
            /\ Outstanding' = Outstanding + 1
            /\ SubSeq(encrypt_client_', 1, Outstanding) = encrypt_client_
            /\ last'.n \in 1 .. (last'.p - 2)
            /\ encrypt_client_'[Outstanding'].public_key
                 = BrutePow(last'.a, last'.n, last'.p)]_vars

AcceptedParamsWitness ==
    /\ last.op = "on_params"
    /\ last.p = 23 /\ last.a = 5 /\ last.n = 6
    /\ waiting_service_
    /\ Outstanding = 1
    /\ encrypt_client_[1].public_key = 8
    /\ round_ = 0

\* C15: waiting_service_ goes from true to false only in a step that handles
\* a response; a step that handles none keeps the client waiting, with the
\* same round_ and not finished, however many parameter events arrive.
NoTimeout ==
    /\ [][(waiting_service_ /\ ~waiting_service_') => last'.op = "response"]_vars
    /\ [][(waiting_service_ /\ last'.op # "response")
            => (waiting_service_' /\ ~finished_' /\ UNCHANGED round_ /\ UNCHANGED Effects)]_vars

NoTimeoutWitness ==
    /\ waiting_service_
    /\ last.op = "on_params"
    /\ last.p >= 3
    /\ last.avail
    /\ last.log = "none"
    /\ round_ = 4
    /\ ~finished_

\* C16: no fault ends the run: in every state the client has finished all
\* its rounds, or waits for a response that can still come, or a valid
\* parameter event with the service up can send a request; and such an
\* event handled while not waiting and not finished does send one.
CanRequest(p) ==
    ENABLED (\E a \in AVals :
               /\ on_params(p, a, TRUE)
               /\ waiting_service_'
               /\ Outstanding' = Outstanding + 1)

LocalRecovery ==
    /\ [](\/ finished_ /\ round_ = kTotalRounds
          \/ waiting_service_ /\ Outstanding = 1 /\ ENABLED ResponseSucceeds
          \/ ~waiting_service_ /\ ~finished_ /\ \A p \in PVals : p >= 3 => CanRequest(p))
    /\ [][(~waiting_service_ /\ ~finished_
             /\ last'.op = "on_params" /\ last'.p >= 3 /\ last'.avail)
            => (waiting_service_' /\ Outstanding' = Outstanding + 1)]_vars

LocalRecoveryWitness ==
    /\ last.op = "response"
    /\ ~last.ok
    /\ round_ = 4
    /\ ~waiting_service_
    /\ ~finished_
    /\ CanRequest(23)

\* C17: mod_mul(x, y, m) is the exact (x * y) mod m for every pair of words
\* x, y and every m >= 1, also when x * y does not fit in a word.
ModMulCorrect ==
    call.fn = "mod_mul"
      => /\ call.result = (call.x * call.y) % call.mod
         /\ call.result \in 0 .. (call.mod - 1)

ModMulCorrectWitness ==
    /\ call.fn = "mod_mul"
    /\ call.x = MaxWord /\ call.y = MaxWord - 2 /\ call.mod = MaxWord - 1
    /\ call.x * call.y >= WordMod
    /\ call.result = (call.x * call.y) % call.mod
    /\ call.result # ((call.x * call.y) % WordMod) % call.mod

\* C18, as claimed: the value published equals the recovered x and lies in
\* [0, p - 1], for every p >= 3 of the word.
Recovered == recover(last.y1, last.y2, last.p, last.n)

SignedMax == Pow2(WordBits - 1) - 1

PublishedIsRecovered ==
    (last.op = "response" /\ last.ok)
      => /\ last.data[1] = Recovered
         /\ last.data[1] \in 0 .. (last.p - 1)

\* C18, amended: the value published is the signed word with the bits of x:
\* it equals x, and lies in [0, p - 1], when x is at most the largest signed
\* value, which is always so when p - 1 is; otherwise it is x - 2^WordBits,
\* a negative number.
PublishedIsReinterpreted ==
    (last.op = "response" /\ last.ok)
      => /\ Len(last.data) = 1
         /\ last.data[1] \in (0 - SignedMax - 1) .. SignedMax
         /\ Recovered <= SignedMax => (last.data[1] = Recovered /\ last.data[1] \in 0 .. (last.p - 1))
         /\ Recovered > SignedMax => (last.data[1] = Recovered - WordMod /\ last.data[1] < 0)
         /\ last.p - 1 <= SignedMax => Recovered <= SignedMax

PublishedIsReinterpretedWitness ==
    /\ last.op = "response"
    /\ last.ok
    /\ last.p = 23
    /\ Recovered > SignedMax
    /\ last.data[1] < 0

\* C19: round_ is in [0, kTotalRounds] and finished_ holds exactly when
\* round_ = kTotalRounds, so on_params never reaches its round_ >=
\* kTotalRounds test with that test true.
RoundBounds ==
    /\ round_ \in 0 .. kTotalRounds
    /\ finished_ <=> round_ = kTotalRounds
    /\ ~(~busy /\ rounds_done)
    /\ last.log # "All rounds are complete"

RoundBoundsWitness ==
    /\ round_ = kTotalRounds
    /\ finished_
    /\ last.op = "on_params"
    /\ last.log = "none"
    /\ last.p < 3

\* C20: waiting_service_ implies not finished_ and round_ < kTotalRounds, a
\* response callback runs only while waiting_service_ is true, and so no
\* response takes round_ above kTotalRounds or publishes after the end.
ResponseOnlyWhileWaiting ==
    /\ [](waiting_service_ => (~finished_ /\ round_ < kTotalRounds))
    /\ [][last'.op = "response"
            => (waiting_service_ /\ ~finished_ /\ round_ < kTotalRounds)]_vars
    /\ [](round_ <= kTotalRounds /\ result_pub_ <= kTotalRounds)

ResponseOnlyWhileWaitingWitness ==
    /\ waiting_service_
    /\ round_ = kTotalRounds - 1
    /\ Outstanding = 1
    /\ last.op = "on_params"
    /\ last.log = "calling elgamal_service"

====
